---- MODULE Spec2Model ----
(***************************************************************************)
(* Model of the parametric action space of releso / SbSOvRL:               *)
(*   releso/spline.py            VariableLocation, SplineSpaceDimension,   *)
(*                               SplineDefinition, NURBSDefinition         *)
(*   SbSOvRL/parser_environment.py   Environment                           *)
(*                                                                         *)
(* Floats are modelled exactly as integers in units of 1/One, i.e. the     *)
(* float 1.0 is the integer One.  All inputs are drawn from sets on which  *)
(* every division of the code is exact, so no rounding is hidden.          *)
(* An Optional[...] value is a sequence of length at most one: None is     *)
(* <<>> and the value x is <<x>>.                                          *)
(***************************************************************************)
EXTENDS Integers, Sequences, FiniteSets, TLC

VARIABLES
    vl_data,        \* keyword arguments the stand-alone VariableLocation was built from
    vl_ok,          \* TRUE iff VariableLocation(**vl_data) returned an instance
    vl,             \* the stand-alone VariableLocation instance
    vl_last,        \* last call made on vl and what it returned
    dim_data,       \* keyword arguments the stand-alone SplineSpaceDimension was built from
    dim_ok,         \* TRUE iff SplineSpaceDimension(**dim_data) returned an instance
    dim,            \* the stand-alone SplineSpaceDimension instance
    dim_last,       \* last call made on dim and what it returned
    config,         \* constructor input of the spline definition / environment
    spline_ok,      \* TRUE iff the spline definition was constructed
    env_ok,         \* TRUE iff Environment.__init__ completed
    heap,           \* object id -> VariableLocation instance
    control_point_variables,  \* SplineDefinition.control_point_variables (object ids)
    weights,        \* NURBSDefinition.weights (object ids)
    _actions,       \* Environment._actions (object ids)
    action_space,   \* result of the last Environment._set_up_actions()
    last,           \* last call made on the environment / definition and its result
    n_calls,        \* number of calls made so far (bounded by MaxCalls)
    validation_environment  \* the deep copy BaseParser made of the environment

vars == <<vl_data, vl_ok, vl, vl_last, dim_data, dim_ok, dim, dim_last,
          config, spline_ok, env_ok, heap, control_point_variables, weights,
          _actions, action_space, last, n_calls, validation_environment>>

vl_vars == <<vl_data, vl_ok, vl, vl_last>>

dim_vars == <<dim_data, dim_ok, dim, dim_last>>

val_vars == <<validation_environment>>

env_vars == <<config, spline_ok, env_ok, heap, control_point_variables,
              weights, _actions, action_space, last, n_calls>>

----------------------------------------------------------------------------
(* Units and bounds *)

\* the float 1.0
One == 120
\* default of VariableLocation.n_steps
DefaultNSteps == 10

\* longest sequence of calls on one environment
MaxCalls == 3
\* largest number of parametric axes of a definition
MaxAxes == 2
\* largest number_of_points of an axis
MaxPoints == 3
\* largest number of control points of a generated grid
MaxGridPoints == 4
\* largest number_of_points of a stand-alone SplineSpaceDimension
MaxDimPoints == 5
\* largest degree of a stand-alone SplineSpaceDimension
MaxDegree == 3
\* longest run of equal discrete actions that is counted
MaxRun == 10
\* longest sequence of calls on an environment over a generated grid
MaxGridCalls == 2
\* largest number of parametric axes of a generated grid
MaxDefaultAxes == 3
\* largest number of control points of a generated grid under calls
MaxDefaultGridPoints == 8
\* largest number of validation goal values
MaxGoals == 2

None == <<>>
Some(x) == <<x>>

Max2(a, b) == IF a >= b THEN a ELSE b
Min2(a, b) == IF a <= b THEN a ELSE b

\* numpy.clip(a, a_min, a_max) == minimum(a_max, maximum(a, a_min))
clip(a, a_min, a_max) == Min2(a_max, Max2(a, a_min))

----------------------------------------------------------------------------
(* VariableLocation *)

\* result of a field validator: a value, or a raised ParserException
Valid(v) == [err |-> FALSE, v |-> v]
Raised == [err |-> TRUE, v |-> 0]

\* a missing bound defaults to 1.0 instead of current_position
set_variable_to_one_if_not_given(v, current_position) ==
    IF v = None
    THEN IF current_position # None
         THEN Valid(One)
         ELSE Raised
    ELSE Valid(v[1])

\* validator of min_value and max_value; current_position is Optional here:
\* None stands for "not among the already validated values"
set_variable_to_current_position_if_not_given(v, current_position) ==
    IF v = None
    THEN IF current_position # None
         THEN Valid(current_position[1])
         ELSE Raised
    ELSE Valid(v[1])

\* max_value is accepted whatever min_value is
max_value_unchecked(v, min_value) ==
    IF min_value.err
    THEN Raised
    ELSE Valid(v)

\* second validator of max_value; min_value is the validation result of min_value
max_value_is_greater_than_min_value(v, min_value) ==
    IF min_value.err
    THEN Raised
    ELSE IF v < min_value.v
         THEN Raised
         ELSE Valid(v)

\* conint(ge=1) on the Optional field n_steps
n_steps_field(n_steps) ==
    IF n_steps = None
    THEN Valid(None)
    ELSE IF n_steps[1] >= 1 THEN Valid(n_steps) ELSE Raised

\* define_step that derives the step from n_steps even when step is given
define_step_from_n_steps(step, n_steps, min_value, max_value) ==
    LET value_range == max_value - min_value
        n == IF n_steps = None THEN DefaultNSteps ELSE n_steps[1]
    IN  value_range \div n

\* define_step that halves the step
define_step_halved(step, n_steps, min_value, max_value) ==
    LET value_range == max_value - min_value
        n == IF n_steps = None THEN DefaultNSteps ELSE n_steps[1]
    IN  IF step # None
        THEN step[1]
        ELSE value_range \div (2 * n)

\* root validator: the step taken by a discrete action
define_step(step, n_steps, min_value, max_value) ==
    LET value_range == max_value - min_value
        n == IF n_steps = None THEN DefaultNSteps ELSE n_steps[1]
    IN  IF step # None
        THEN step[1]
        ELSE value_range \div n

\* TRUE iff value_range / n_steps is exact in units of 1/One
StepIsExact(data) ==
    \/ data.step # None
    \/ data.n_steps # None /\ data.n_steps[1] < 1
    \/ LET lo == IF data.min_value = None THEN data.current_position[1]
                 ELSE data.min_value[1]
           hi == IF data.max_value = None THEN data.current_position[1]
                 ELSE data.max_value[1]
           n == IF data.n_steps = None THEN DefaultNSteps ELSE data.n_steps[1]
       IN  hi >= lo => (hi - lo) % n = 0

\* the field validators of VariableLocation, in field order
VariableLocationFields(data) ==
    LET min_value == set_variable_to_current_position_if_not_given(
                         data.min_value, data.current_position)
        max_given == set_variable_to_current_position_if_not_given(
                         data.max_value, data.current_position)
        max_value == IF max_given.err THEN Raised
                     ELSE max_value_is_greater_than_min_value(
                              max_given.v, min_value)
        n_steps == n_steps_field(data.n_steps)
    IN  [current_position |-> data.current_position,
         min_value |-> min_value, max_value |-> max_value,
         n_steps |-> n_steps]

\* TRUE iff VariableLocation(**data) returns an instance
VariableLocationOk(data) ==
    LET f == VariableLocationFields(data)
    IN  /\ f.current_position # None
        /\ ~f.min_value.err
        /\ ~f.max_value.err
        /\ ~f.n_steps.err

\* the instance VariableLocation(**data) returns when VariableLocationOk(data)
VariableLocation(data) ==
    LET f == VariableLocationFields(data)
    IN  [current_position |-> f.current_position[1],
         min_value |-> f.min_value.v,
         max_value |-> f.max_value.v,
         n_steps |-> f.n_steps.v,
         step |-> define_step(data.step, f.n_steps.v,
                              f.min_value.v, f.max_value.v),
         _is_action |-> None,
         _original_position |-> None]

\* is_action_flag with non-strict comparisons
is_action_flag_inclusive(self) ==
    IF self._is_action = None
    THEN (self.max_value >= self.current_position)
            \/ (self.min_value <= self.current_position)
    ELSE self._is_action[1]

\* is_action_flag without the cache
is_action_flag_uncached(self) ==
    (self.max_value > self.current_position)
        \/ (self.min_value < self.current_position)

\* value of self._is_action after is_action(); is_action() returns it
is_action_flag(self) ==
    IF self._is_action = None
    THEN (self.max_value > self.current_position)
            \/ (self.min_value < self.current_position)
    ELSE self._is_action[1]

\* self after is_action()
is_action(self) ==
    [self EXCEPT !._is_action = Some(is_action_flag(self))]

\* snapshot taken on every call
snapshot_always(self) ==
    [self EXCEPT !._original_position = Some(self.current_position)]

\* the snapshot both apply_* methods take first
snapshot(self) ==
    IF self._original_position = None
    THEN [self EXCEPT !._original_position = Some(self.current_position)]
    ELSE self

\* apply_discrete_action without the clipping
apply_discrete_action_no_clip(self, increasing) ==
    LET s == snapshot(self)
        step == IF increasing THEN s.step ELSE -s.step
    IN  [s EXCEPT !.current_position = s.current_position + step]

\* self after apply_discrete_action(increasing); returns current_position
apply_discrete_action(self, increasing) ==
    LET s == snapshot(self)
        step == IF increasing THEN s.step ELSE -s.step
    IN  [s EXCEPT !.current_position =
            clip(s.current_position + step, s.min_value, s.max_value)]

\* descale without the shift of the value by one
descale_unshifted(value, delta) == (value * delta) \div 2

\* ((value+1.)/2.) * delta ; value in units of 1, delta in units of 1/One
descale(value, delta) == ((value + 1) * delta) \div 2

\* self after apply_continuos_action(value); returns current_position
apply_continuos_action(self, value) ==
    LET s == snapshot(self)
        delta == s.max_value - s.min_value
        descaled_value == descale(value, delta)
    IN  [s EXCEPT !.current_position =
            clip(descaled_value + s.min_value, s.min_value, s.max_value)]

\* reset with a snapshot that defaults to 0.0 instead of None
reset_unguarded(self) ==
    [self EXCEPT !.current_position =
        IF self._original_position # None
        THEN self._original_position[1] ELSE 0]

\* self after reset()
reset(self) ==
    IF self._original_position # None
    THEN [self EXCEPT !.current_position = self._original_position[1]]
    ELSE self

----------------------------------------------------------------------------
(* A stand-alone VariableLocation under arbitrary calls *)

\* positions, bounds and steps a VariableLocation is built from
VLPositions == {0, One \div 2, One, One + One \div 2}
VLBounds == {None} \cup {Some(p) : p \in VLPositions}
VLNSteps == {None, Some(0), Some(1), Some(2), Some(DefaultNSteps)}
VLSteps == {None, Some(-(One \div 4)), Some(One \div 4), Some(2 * One)}
\* normalised values handed to apply_continuos_action
ContinuousValues == {-2, -1, 0, 1, 2}

VLData ==
    { d \in [current_position : {None} \cup {Some(p) : p \in VLPositions},
             min_value : VLBounds, max_value : VLBounds,
             n_steps : VLNSteps, step : VLSteps] :
        d.current_position # None => StepIsExact(d) }

\* placeholder held in vl when construction raised
NoVariableLocation ==
    [current_position |-> 0, min_value |-> 0, max_value |-> 0,
     n_steps |-> None, step |-> 0,
     _is_action |-> None, _original_position |-> None]

\* run counts the equal apply_discrete_action calls made in a row up to and
\* including this one, up to MaxRun
VLCall(op, increasing, value, ret, flag, run) ==
    [op |-> op, increasing |-> increasing, value |-> value,
     ret |-> ret, flag |-> flag, run |-> run]

\* the run of equal discrete actions after one more call
run_after(prev, increasing) ==
    IF prev.op = "apply_discrete_action" /\ prev.increasing = increasing
    THEN Min2(prev.run + 1, MaxRun)
    ELSE 1

\* the stand-alone VariableLocation is idle in the other specifications
VLIdle ==
    /\ vl_data = None
    /\ vl_ok = FALSE
    /\ vl = NoVariableLocation
    /\ vl_last = VLCall("idle", FALSE, 0, 0, FALSE, 0)

\* placeholder held in dim when construction raised
NoSplineSpaceDimension ==
    [name |-> "", number_of_points |-> 0, degree |-> 0, knot_vector |-> None]

DimCall(op, ret) == [op |-> op, ret |-> ret]

\* the stand-alone SplineSpaceDimension is idle in the other specifications
DimIdle ==
    /\ dim_data = None
    /\ dim_ok = FALSE
    /\ dim = NoSplineSpaceDimension
    /\ dim_last = DimCall("idle", None)

\* the grid / environment part is idle in the stand-alone specification
EnvIdle ==
    /\ config = None
    /\ spline_ok = FALSE
    /\ env_ok = FALSE
    /\ heap = <<>>
    /\ control_point_variables = <<>>
    /\ weights = <<>>
    /\ _actions = <<>>
    /\ action_space = None
    /\ last = None
    /\ n_calls = 0
    /\ validation_environment = None

VLInit ==
    /\ vl_data \in VLData
    /\ vl_ok = VariableLocationOk(vl_data)
    /\ vl = IF vl_ok THEN VariableLocation(vl_data) ELSE NoVariableLocation
    /\ vl_last = VLCall("__init__", FALSE, 0, 0, FALSE, 0)
    /\ DimIdle
    /\ EnvIdle

VLApplyDiscreteAction ==
    /\ vl_ok
    /\ \E increasing \in BOOLEAN :
        /\ vl' = apply_discrete_action(vl, increasing)
        /\ vl_last' = VLCall("apply_discrete_action", increasing, 0,
                             vl'.current_position, FALSE,
                             run_after(vl_last, increasing))
    /\ UNCHANGED <<vl_data, vl_ok>>
    /\ UNCHANGED <<dim_vars, env_vars, val_vars>>

VLApplyContinuosAction ==
    /\ vl_ok
    /\ \E value \in ContinuousValues :
        /\ vl' = apply_continuos_action(vl, value)
        /\ vl_last' = VLCall("apply_continuos_action", FALSE, value,
                             vl'.current_position, FALSE, 0)
    /\ UNCHANGED <<vl_data, vl_ok>>
    /\ UNCHANGED <<dim_vars, env_vars, val_vars>>

VLReset ==
    /\ vl_ok
    /\ vl' = reset(vl)
    /\ vl_last' = VLCall("reset", FALSE, 0, 0, FALSE, 0)
    /\ UNCHANGED <<vl_data, vl_ok>>
    /\ UNCHANGED <<dim_vars, env_vars, val_vars>>

VLIsAction ==
    /\ vl_ok
    /\ vl' = is_action(vl)
    /\ vl_last' = VLCall("is_action", FALSE, 0, 0, is_action_flag(vl), 0)
    /\ UNCHANGED <<vl_data, vl_ok>>
    /\ UNCHANGED <<dim_vars, env_vars, val_vars>>

VLNext ==
    \/ VLApplyDiscreteAction
    \/ VLApplyContinuosAction
    \/ VLReset
    \/ VLIsAction

SpecVL == VLInit /\ [][VLNext]_vars

----------------------------------------------------------------------------
(* Python values held in control_point_variables *)

\* a Python list of objects
List(items) == [type |-> "list", items |-> items]
\* a reference to one VariableLocation object
Obj(id) == [type |-> "VariableLocation", id |-> id]

\* an element of the input: a raw float or the keyword record of a
\* VariableLocation
Float(x) ==
    [type |-> "float",
     data |-> [current_position |-> Some(x), min_value |-> None,
               max_value |-> None, n_steps |-> Some(DefaultNSteps),
               step |-> None]]
Record(cur, lo, hi, step) ==
    [type |-> "dict",
     data |-> [current_position |-> Some(cur), min_value |-> lo,
               max_value |-> hi, n_steps |-> Some(DefaultNSteps),
               step |-> step]]

RECURSIVE Product(_)
Product(s) == IF s = <<>> THEN 1 ELSE Head(s) * Product(Tail(s))

RECURSIVE Flatten(_)
Flatten(ss) == IF ss = <<>> THEN <<>> ELSE Head(ss) \o Flatten(Tail(ss))

Reverse(s) == [i \in 1..Len(s) |-> s[Len(s) + 1 - i]]

----------------------------------------------------------------------------
(* SplineDefinition: the default control point grid *)

\* numpy.linspace(0., 1., n_p)
linspace(n_p) ==
    [i \in 1..n_p |-> IF n_p = 1 THEN 0 ELSE ((i - 1) * One) \div (n_p - 1)]

\* 1./((n_p-1)*2), defined when n_p > 1 (ZeroDivisionError otherwise)
dim_spacing(n_p) == One \div ((n_p - 1) * 2)

\* grid_variable_location without the special cases of 0. and 1.
grid_variable_location_symmetric(element, spacing) ==
    VariableLocation(
        [current_position |-> Some(element),
         min_value |-> Some(element - spacing),
         max_value |-> Some(element + spacing),
         n_steps |-> Some(DefaultNSteps),
         step |-> None])

\* the VariableLocation the grid creates for one value of one axis
grid_variable_location(element, spacing) ==
    VariableLocation(
        [current_position |-> Some(element),
         min_value |-> Some(IF element = 0 THEN element ELSE element - spacing),
         max_value |-> Some(IF element = One THEN element ELSE element + spacing),
         n_steps |-> Some(DefaultNSteps),
         step |-> None])

\* the list elem refers to the objects of current_list
deepcopy_aliased(ids, offset) == ids

\* ids of the objects copy.deepcopy creates for the objects ids, allocated
\* from offset + 1
deepcopy(ids, offset) == [j \in 1..Len(ids) |-> offset + j]

\* current_list if type(current_list) is list else [current_list]
as_list(current_list) ==
    IF current_list.type = "list" THEN current_list.items
    ELSE <<current_list.id>>

\* the new coordinate behind the copied ones
new_control_point_appended(id, elem) == elem \o <<id>>

\* [VariableLocation(...)] + elem
new_control_point(id, elem) == <<id>> \o elem

\* one iteration of the loop over (inner_dim, dim_spacing); acc.v = None
\* before the first iteration
grid_iteration(acc, n_p) ==
    LET inner_dim == linspace(n_p)
        spacing == dim_spacing(n_p)
    IN  IF acc.v = None
        THEN [heap |-> [i \in 1..n_p |->
                            grid_variable_location(inner_dim[i], spacing)],
              v |-> Some([i \in 1..n_p |-> Obj(i)])]
        ELSE
          LET old == acc.v[1]
              w == Len(as_list(old[1]))
              n == Len(old) * n_p
              base(e) == Len(acc.heap) + (e - 1) * (w + 1)
              cur(e) == old[((e - 1) \div n_p) + 1]
              elt(e) == inner_dim[((e - 1) % n_p) + 1]
              created ==
                [x \in 1..(n * (w + 1)) |->
                    LET e == ((x - 1) \div (w + 1)) + 1
                        j == ((x - 1) % (w + 1)) + 1
                    IN  IF j = 1
                        THEN grid_variable_location(elt(e), spacing)
                        ELSE acc.heap[as_list(cur(e))[j - 1]]]
          IN  [heap |-> acc.heap \o created,
               v |-> Some([e \in 1..n |->
                        List(new_control_point(base(e) + 1,
                                deepcopy(as_list(cur(e)), base(e) + 1)))])]

RECURSIVE grid_loop(_, _)
grid_loop(acc, n_points_in_dim) ==
    IF n_points_in_dim = <<>> THEN acc
    ELSE grid_loop(grid_iteration(acc, Head(n_points_in_dim)),
                   Tail(n_points_in_dim))

\* TRUE iff the validator raises (ZeroDivisionError of 1./((n_p-1)*2))
default_grid_raises(space_dimensions) ==
    \E d \in 1..Len(space_dimensions) :
        space_dimensions[d].number_of_points = 1

\* validator make_default_control_point_grid for v = None: the objects
\* created and the value of control_point_variables
make_default_control_point_grid(space_dimensions) ==
    LET n_points_in_dim ==
            Reverse([d \in 1..Len(space_dimensions) |->
                        space_dimensions[d].number_of_points])
        acc == grid_loop([heap |-> <<>>, v |-> None], n_points_in_dim)
    IN  [heap |-> acc.heap, v |-> acc.v[1]]

----------------------------------------------------------------------------
(* SplineDefinition: explicitly supplied control points *)

\* Union[VariableLocation, confloat(ge=0, le=1)] accepts the element
element_ok(element) ==
    IF element.type = "float"
    THEN 0 <= element.data.current_position[1]
            /\ element.data.current_position[1] <= One
    ELSE VariableLocationOk(element.data)

\* the check of convert_all_control_point_locations_to_variable_locations
in_unit_hypercube(obj) ==
    0 <= obj.current_position /\ obj.current_position <= One

\* TRUE iff validation of the supplied control_point_variables raises
explicit_grid_raises(cps) ==
    \E i \in 1..Len(cps) : \E j \in 1..Len(cps[i]) :
        \/ ~element_ok(cps[i][j])
        \/ ~in_unit_hypercube(VariableLocation(cps[i][j].data))

\* validator convert_all_control_point_locations_to_variable_locations over
\* all items: the objects created and the value of control_point_variables
convert_all_control_point_locations_to_variable_locations(cps) ==
    LET flat == Flatten(cps)
        start(i) == Len(Flatten(SubSeq(cps, 1, i - 1)))
    IN  [heap |-> [x \in 1..Len(flat) |-> VariableLocation(flat[x].data)],
         v |-> [i \in 1..Len(cps) |->
                    List([j \in 1..Len(cps[i]) |-> start(i) + j])]]

----------------------------------------------------------------------------
(* NURBSDefinition: weights *)

\* Union[float, VariableLocation] accepts the element
weight_ok(element) ==
    element.type = "float" \/ VariableLocationOk(element.data)

\* weights_raise without the comparison of len(v) with n_cp
weights_raise_any_length(space_dimensions, w) ==
    \/ w = None
    \/ \E i \in 1..Len(w[1]) : ~weight_ok(w[1][i])

\* TRUE iff validation of the field weights raises; weights = None stands
\* for a missing field (the field is required)
weights_raise(space_dimensions, w) ==
    LET n_cp == Product([d \in 1..Len(space_dimensions) |->
                            space_dimensions[d].number_of_points])
    IN  \/ w = None
        \/ \E i \in 1..Len(w[1]) : ~weight_ok(w[1][i])
        \/ Len(w[1]) # n_cp

\* validator convert_weights_into_variable_location over all items
convert_weights_into_variable_location(w) ==
    [i \in 1..Len(w) |-> VariableLocation(w[i].data)]

----------------------------------------------------------------------------
(* SplineDefinition / NURBSDefinition: construction and queries *)

\* TRUE iff the constructor of the definition raises
definition_raises(c) ==
    \/ IF c.control_point_variables = None
       THEN default_grid_raises(c.space_dimensions)
       ELSE explicit_grid_raises(c.control_point_variables[1])
    \/ c.kind = "NURBS" /\ weights_raise(c.space_dimensions, c.weights)

\* the constructed definition: its objects, grid and weights
definition(c) ==
    LET grid == IF c.control_point_variables = None
                THEN make_default_control_point_grid(c.space_dimensions)
                ELSE convert_all_control_point_locations_to_variable_locations(
                         c.control_point_variables[1])
        w == IF c.kind = "NURBS"
             THEN convert_weights_into_variable_location(c.weights[1])
             ELSE <<>>
    IN  [heap |-> grid.heap \o w,
         control_point_variables |-> grid.v,
         weights |-> [i \in 1..Len(w) |-> Len(grid.heap) + i]]

\* np.prod of number_of_points over space_dimensions
get_number_of_points(space_dimensions) ==
    Product([d \in 1..Len(space_dimensions) |->
                space_dimensions[d].number_of_points])

\* iterating a VariableLocation yields (name, value) tuples, on which the
\* attribute access of the comprehensions raises AttributeError
iteration_raises(cpv) ==
    \E i \in 1..Len(cpv) : cpv[i].type # "list"

\* get_control_points(), defined when ~iteration_raises(cpv)
get_control_points(h, cpv) ==
    [i \in 1..Len(cpv) |->
        [j \in 1..Len(cpv[i].items) |-> h[cpv[i].items[j]].current_position]]

\* ids in visiting order of the comprehension of get_actions / reset
visited(cpv) == Flatten([i \in 1..Len(cpv) |-> cpv[i].items])

\* the sub-sequence of ids whose is_action() returns TRUE
RECURSIVE select_actions(_, _)
select_actions(h, ids) ==
    IF ids = <<>> THEN <<>>
    ELSE (IF is_action_flag(h[Head(ids)]) THEN <<Head(ids)>> ELSE <<>>)
            \o select_actions(h, Tail(ids))

\* get_actions with the weight actions in front of the grid actions
get_actions_weights_first(h, cpv, w) ==
    select_actions(h, w) \o select_actions(h, visited(cpv))

\* SplineDefinition.get_actions() followed, for a NURBS, by the extension
\* of NURBSDefinition.get_actions(); w is empty for a B-spline
get_actions(h, cpv, w) ==
    select_actions(h, visited(cpv)) \o select_actions(h, w)

\* the objects a definition refers to
referenced(cpv, w) ==
    {visited(cpv)[k] : k \in 1..Len(visited(cpv))} \cup {w[k] : k \in 1..Len(w)}

\* the objects after get_actions(): is_action() was called on every one
heap_after_get_actions(h, cpv, w) ==
    [x \in DOMAIN h |->
        IF x \in referenced(cpv, w) THEN is_action(h[x]) ELSE h[x]]

\* the objects after SplineDefinition.reset() / NURBSDefinition.reset()
spline_reset(h, cpv, w) ==
    [x \in DOMAIN h |->
        IF x \in referenced(cpv, w) THEN reset(h[x]) ELSE h[x]]

----------------------------------------------------------------------------
(* Environment *)

\* _set_up_actions with one discrete value per variable
_set_up_actions_single(discrete_actions, actions) ==
    IF discrete_actions
    THEN [space |-> "Discrete", n |-> Len(actions)]
    ELSE [space |-> "Box", n |-> Len(actions)]

\* Environment._set_up_actions(): spaces.Discrete(n) or spaces.Box(shape=(n,))
_set_up_actions(discrete_actions, actions) ==
    IF discrete_actions
    THEN [space |-> "Discrete", n |-> Len(actions) * 2]
    ELSE [space |-> "Box", n |-> Len(actions)]

\* increasing on odd actions
increasing_of_odd(action) == action % 2 = 1

\* action % 2 == 0
increasing_of(action) == action % 2 = 0

\* int(action / 2), as a 0-based Python index
action_index_of(action) == action \div 2

\* the objects after Environment.apply_action(action), discrete mode
apply_action_discrete(h, actions, action) ==
    LET id == actions[action_index_of(action) + 1]
    IN  [h EXCEPT ![id] = apply_discrete_action(h[id], increasing_of(action))]

\* the objects after the first n pairs of zip(action, self._actions)
RECURSIVE apply_zip(_, _, _, _)
apply_zip(h, actions, action, n) ==
    IF n = 0 THEN h
    ELSE [apply_zip(h, actions, action, n - 1) EXCEPT ![actions[n]] =
            apply_continuos_action(@, action[n])]

\* the objects after Environment.apply_action(action), continuous mode
apply_action_continuous(h, actions, action) ==
    apply_zip(h, actions, action, Min2(Len(action), Len(actions)))

----------------------------------------------------------------------------
(* SplineSpaceDimension *)

\* numpy.zeros(n) and numpy.ones(n)
zeros(n) == [i \in 1..n |-> 0]
ones(n) == [i \in 1..n |-> One]

\* TRUE iff SplineSpaceDimension(**data) raises: a required field is
\* missing or violates conint(ge=1)
dimension_raises(data) ==
    \/ data.name = None
    \/ data.number_of_points < 1
    \/ data.degree < 1

\* validate_knot_vector whose generated vector starts and ends with
\* starting_ending further entries
validate_knot_vector_padded(number_of_points, degree, v) ==
    LET n_knots == number_of_points + degree + 1
        starting_ending == degree + 1
        middle == n_knots - (2 * starting_ending)
    IN  IF v # None
        THEN IF Len(v[1]) = n_knots THEN v ELSE None
        ELSE IF middle >= 0
             THEN Some(zeros(starting_ending) \o linspace(middle + 2)
                        \o ones(starting_ending))
             ELSE Some(zeros(starting_ending) \o ones(starting_ending))

\* validate_knot_vector that returns a supplied vector of any length
validate_knot_vector_any_length(number_of_points, degree, v) ==
    LET n_knots == number_of_points + degree + 1
        starting_ending == degree + 1
        middle == n_knots - (2 * starting_ending)
    IN  IF v # None
        THEN v
        ELSE IF middle >= 0
             THEN Some(zeros(starting_ending - 1) \o linspace(middle + 2)
                        \o ones(starting_ending - 1))
             ELSE Some(zeros(starting_ending) \o ones(starting_ending))

\* validator of knot_vector (always=True); v is the Optional field value.
\* The branch of a supplied list of another length only logs a warning and
\* ends without a return statement, so the validator returns None there.
validate_knot_vector(number_of_points, degree, v) ==
    LET n_knots == number_of_points + degree + 1
        starting_ending == degree + 1
        middle == n_knots - (2 * starting_ending)
    IN  IF v # None
        THEN IF Len(v[1]) = n_knots THEN v ELSE None
        ELSE IF middle >= 0
             THEN Some(zeros(starting_ending - 1) \o linspace(middle + 2)
                        \o ones(starting_ending - 1))
             ELSE Some(zeros(starting_ending) \o ones(starting_ending))

\* the instance SplineSpaceDimension(**data) returns when it does not raise
SplineSpaceDimension(data) ==
    [name |-> data.name[1],
     number_of_points |-> data.number_of_points,
     degree |-> data.degree,
     knot_vector |-> validate_knot_vector(data.number_of_points, data.degree,
                                          data.knot_vector)]

\* get_knot_vector(): the field as it is
get_knot_vector(self) == self.knot_vector

----------------------------------------------------------------------------
(* A stand-alone SplineSpaceDimension *)

\* supplied knot vectors: for every length an open vector of zeros and ones,
\* and one that is neither sorted nor inside [0, 1]
KnotVectors ==
    { [i \in 1..len |-> IF 2 * i <= len THEN 0 ELSE One] :
        len \in 0..(MaxDimPoints + MaxDegree + 2) }
        \cup { <<One, 0, 2 * One>> }

\* TRUE iff every knot numpy.linspace generates is exact in units of 1/One
KnotsAreExact(data) ==
    data.number_of_points > data.degree =>
        One % (data.number_of_points - data.degree) = 0

DimData ==
    { d \in [name : {None, Some("u")},
             number_of_points : 0..MaxDimPoints,
             degree : 0..MaxDegree,
             knot_vector : {None} \cup { Some(k) : k \in KnotVectors }] :
        KnotsAreExact(d) }

DimInit ==
    /\ dim_data \in DimData
    /\ dim_ok = ~dimension_raises(dim_data)
    /\ dim = IF dim_ok THEN SplineSpaceDimension(dim_data)
             ELSE NoSplineSpaceDimension
    /\ dim_last = DimCall("__init__", None)
    /\ VLIdle
    /\ EnvIdle

DimGetKnotVector ==
    /\ dim_ok
    /\ dim_last' = DimCall("get_knot_vector", get_knot_vector(dim))
    /\ UNCHANGED <<dim_data, dim_ok, dim>>
    /\ UNCHANGED <<vl_vars, env_vars, val_vars>>

DimNext == DimGetKnotVector

SpecDim == DimInit /\ [][DimNext]_vars

----------------------------------------------------------------------------
(* Inputs of the definition / environment *)

\* elements of supplied control points
F0 == Float(0)
FHalf == Float(One \div 2)
F1 == Float(One)
\* a float outside the unit interval
FOut == Float(One + One \div 2)
\* current_position=0.5, min_value=0.0, max_value=1.0
VInside == Record(One \div 2, Some(0), Some(One), None)
\* current_position=0.5, min_value=0.0, max_value=2.0
VWide == Record(One \div 2, Some(0), Some(2 * One), None)
\* current_position=0.5, min_value=1.0, max_value=1.0
VOutside == Record(One \div 2, Some(One), Some(One), None)
\* current_position=0.5, min_value=0.0, max_value=1.0, step=-0.25
VNegative == Record(One \div 2, Some(0), Some(One), Some(-(One \div 4)))
\* current_position=0.5, min_value=1.0, max_value=0.5
VInverted == Record(One \div 2, Some(One), Some(One \div 2), None)
\* current_position=1.5
VFar == Record(One + One \div 2, None, None, None)

ControlPoints ==
    { <<VInside, FHalf>>, <<VWide, VOutside>>, <<VNegative, F1>>,
      <<FOut, F0>>, <<VInverted>>, <<VFar, F0>> }

\* supplied control_point_variables: one control point, or two of which the
\* first is <<VInside, FHalf>>
ControlPointLists ==
    { <<p>> : p \in ControlPoints }
        \cup { << <<VInside, FHalf>>, q >> : q \in ControlPoints }

\* current_position=1.0, min_value=0.5, max_value=2.0
WAction == Record(One, Some(One \div 2), Some(2 * One), None)

\* supplied weights for n control points: all ones, one variable weight
\* last, or one weight too many
WeightLists(n) ==
    { [i \in 1..n |-> F1],
      [i \in 1..n |-> IF i = n THEN WAction ELSE F1],
      [i \in 1..(n + 1) |-> F1] }

SpaceDimensions ==
    { dims \in UNION { [1..d -> [number_of_points : 1..MaxPoints]] :
                        d \in 1..MaxAxes } :
        get_number_of_points(dims) <= MaxGridPoints }

\* supplied control points are combined with one-axis definitions only
Configs ==
    { c \in [kind : {"BSpline", "NURBS"},
             space_dimensions : SpaceDimensions,
             control_point_variables :
                {None} \cup { Some(l) : l \in ControlPointLists },
             weights : {None} \cup
                { Some(w) : w \in UNION { WeightLists(n) :
                                            n \in 1..MaxGridPoints } },
             discrete_actions : BOOLEAN] :
        /\ c.control_point_variables # None => Len(c.space_dimensions) = 1
        /\ c.kind = "BSpline" => c.weights = None
        /\ (c.kind = "NURBS" /\ c.weights # None) =>
                c.weights[1] \in
                    WeightLists(get_number_of_points(c.space_dimensions)) }

\* normalised vectors handed to apply_action in continuous mode, of length
\* k: constant ones, and ones that single out one position
ContinuousVectors(k) ==
    { [j \in 1..k |-> x] : x \in ContinuousValues }
        \cup { [j \in 1..k |-> IF j = p THEN 1 ELSE -1] : p \in 1..k }
        \cup { [j \in 1..k |-> IF j = p THEN 0 ELSE 1] : p \in 1..k }

Call(op, arg, ret) == [op |-> op, arg |-> arg, ret |-> ret]

----------------------------------------------------------------------------
(* The environment under arbitrary calls *)

\* Environment.__init__ on one of the configurations: the definition is
\* constructed, then self._actions = self.spline.get_actions()
InitWith(configs) ==
    /\ VLIdle
    /\ DimIdle
    /\ config \in { Some(c) : c \in configs }
    /\ spline_ok = ~definition_raises(config[1])
    /\ LET d == IF spline_ok THEN definition(config[1])
                ELSE [heap |-> <<>>, control_point_variables |-> <<>>,
                      weights |-> <<>>]
       IN  /\ control_point_variables = d.control_point_variables
           /\ weights = d.weights
           /\ env_ok = (spline_ok /\ ~iteration_raises(control_point_variables))
           /\ heap = IF env_ok
                     THEN heap_after_get_actions(d.heap,
                              control_point_variables, weights)
                     ELSE d.heap
           /\ _actions = IF env_ok
                         THEN get_actions(d.heap, control_point_variables,
                                          weights)
                         ELSE <<>>
    /\ action_space = None
    /\ last = Call("__init__", <<>>, <<>>)
    /\ n_calls = 0
    /\ validation_environment = None

Init == InitWith(Configs)

\* Environment.apply_action(action) with discrete_actions
ApplyActionDiscrete ==
    /\ env_ok
    /\ config[1].discrete_actions
    /\ n_calls < MaxCalls
    /\ \E action \in 0..(2 * Len(_actions) - 1) :
        /\ heap' = apply_action_discrete(heap, _actions, action)
        /\ last' = Call("apply_action", <<action>>, <<>>)
    /\ n_calls' = n_calls + 1
    /\ UNCHANGED <<config, spline_ok, env_ok, control_point_variables,
                   weights, _actions, action_space>>
    /\ UNCHANGED <<vl_vars, dim_vars, val_vars>>

\* Environment.apply_action(action) without discrete_actions
ApplyActionContinuous ==
    /\ env_ok
    /\ ~config[1].discrete_actions
    /\ n_calls < MaxCalls
    /\ \E action \in ContinuousVectors(Len(_actions)) :
        /\ heap' = apply_action_continuous(heap, _actions, action)
        /\ last' = Call("apply_action", action, <<>>)
    /\ n_calls' = n_calls + 1
    /\ UNCHANGED <<config, spline_ok, env_ok, control_point_variables,
                   weights, _actions, action_space>>
    /\ UNCHANGED <<vl_vars, dim_vars, val_vars>>

\* Environment.reset(): self.spline.reset()
Reset ==
    /\ env_ok
    /\ n_calls < MaxCalls
    /\ heap' = spline_reset(heap, control_point_variables, weights)
    /\ last' = Call("reset", <<>>, <<>>)
    /\ n_calls' = n_calls + 1
    /\ UNCHANGED <<config, spline_ok, env_ok, control_point_variables,
                   weights, _actions, action_space>>
    /\ UNCHANGED <<vl_vars, dim_vars, val_vars>>

\* self.spline.get_actions()
GetActions ==
    /\ env_ok
    /\ n_calls < MaxCalls
    /\ heap' = heap_after_get_actions(heap, control_point_variables, weights)
    /\ last' = Call("get_actions", <<>>,
                    get_actions(heap, control_point_variables, weights))
    /\ n_calls' = n_calls + 1
    /\ UNCHANGED <<config, spline_ok, env_ok, control_point_variables,
                   weights, _actions, action_space>>
    /\ UNCHANGED <<vl_vars, dim_vars, val_vars>>

\* self.spline.get_control_points()
GetControlPoints ==
    /\ env_ok
    /\ n_calls < MaxCalls
    /\ last' = Call("get_control_points", <<>>,
                    get_control_points(heap, control_point_variables))
    /\ n_calls' = n_calls + 1
    /\ UNCHANGED <<config, spline_ok, env_ok, heap, control_point_variables,
                   weights, _actions, action_space>>
    /\ UNCHANGED <<vl_vars, dim_vars, val_vars>>

\* Environment.get_gym_environment(): self._set_up_actions()
SetUpActions ==
    /\ env_ok
    /\ n_calls < MaxCalls
    /\ action_space' =
            Some(_set_up_actions(config[1].discrete_actions, _actions))
    /\ last' = Call("_set_up_actions", <<>>, <<>>)
    /\ n_calls' = n_calls + 1
    /\ UNCHANGED <<config, spline_ok, env_ok, heap, control_point_variables,
                   weights, _actions>>
    /\ UNCHANGED <<vl_vars, dim_vars, val_vars>>

Next ==
    \/ ApplyActionDiscrete
    \/ ApplyActionContinuous
    \/ Reset
    \/ GetActions
    \/ GetControlPoints
    \/ SetUpActions

Spec == Init /\ [][Next]_vars

----------------------------------------------------------------------------
(* The environment over a generated control point grid *)

\* axes of generated grids
GridDimensions ==
    { dims \in UNION { [1..d -> [number_of_points : 1..MaxPoints]] :
                        d \in 1..MaxDefaultAxes } :
        get_number_of_points(dims) <= MaxDefaultGridPoints }

\* B-spline definitions without supplied control points
GridConfigs ==
    { [kind |-> "BSpline", space_dimensions |-> dims,
       control_point_variables |-> None, weights |-> None,
       discrete_actions |-> b] : dims \in GridDimensions, b \in BOOLEAN }

GridInit == InitWith(GridConfigs)

GridNext == n_calls < MaxGridCalls /\ Next

SpecGrid == GridInit /\ [][GridNext]_vars

----------------------------------------------------------------------------
(* BaseParser: the validation environment next to the training environment *)

\* a copy whose lists refer to the objects of the original
deepcopy_environment_shared(h, cpv, w, actions) ==
    [heap |-> h,
     control_point_variables |-> cpv,
     weights |-> w,
     _actions |-> actions]

\* copy.deepcopy(self.environment): every object is copied once, references
\* to one object become references to its one copy; the copy of the object
\* id is allocated at Len(h) + id
deepcopy_environment(h, cpv, w, actions) ==
    [heap |-> h \o h,
     control_point_variables |->
        [i \in 1..Len(cpv) |->
            List([j \in 1..Len(cpv[i].items) |-> Len(h) + cpv[i].items[j]])],
     weights |-> [i \in 1..Len(w) |-> Len(h) + w[i]],
     _actions |-> [k \in 1..Len(actions) |-> Len(h) + actions[k]]]

\* the copied Environment: its lists and its private validation attributes,
\* which have their defaults in the environment that was copied;
\* new_goal_value is the goal the last reset() selected
ValidationEnvironment(copy) ==
    [control_point_variables |-> copy.control_point_variables,
     weights |-> copy.weights,
     _actions |-> copy._actions,
     _validation |-> None,
     _validation_idx |-> 0,
     _validation_itteration |-> 0,
     _timesteps_in_validation |-> 0,
     new_goal_value |-> None]

\* Environment.set_validation(validation_values)
set_validation(self, validation_values) ==
    [self EXCEPT !._validation = Some(validation_values)]

\* truth value of self._validation
validation_is_set(self) ==
    self._validation # None /\ self._validation[1] # <<>>

\* the validation part of Environment.step(): done is the flag the solver
\* run returned
step_validation(self, done) ==
    IF validation_is_set(self) /\ ~done
    THEN [self EXCEPT !._timesteps_in_validation = @ + 1]
    ELSE self

\* reset_validation that wraps the index as soon as it reaches
\* len(self._validation)
reset_validation_early_wrap(self) ==
    LET cleared == [self EXCEPT !._timesteps_in_validation = 0,
                                !.new_goal_value = None]
    IN  IF validation_is_set(self)
        THEN LET n == Len(self._validation[1])
                 idx == self._validation_idx + 1
             IN  [cleared EXCEPT
                    !.new_goal_value =
                        Some(self._validation[1][
                                (self._validation_idx % n) + 1]),
                    !._validation_idx = IF idx >= n THEN 0 ELSE idx,
                    !._validation_itteration =
                        IF idx >= n THEN @ + 1 ELSE @]
        ELSE cleared

\* the validation part of Environment.reset()
reset_validation(self) ==
    LET cleared == [self EXCEPT !._timesteps_in_validation = 0,
                                !.new_goal_value = None]
    IN  IF validation_is_set(self)
        THEN LET n == Len(self._validation[1])
                 idx == self._validation_idx + 1
             IN  [cleared EXCEPT
                    !.new_goal_value =
                        Some(self._validation[1][
                                (self._validation_idx % n) + 1]),
                    !._validation_idx = IF idx > n THEN 0 ELSE idx,
                    !._validation_itteration =
                        IF idx > n THEN @ + 1 ELSE @]
        ELSE cleared

\* validation goal values handed to set_validation: n goals, n <= MaxGoals
ValidationValues == { [i \in 1..n |-> 10 + i] : n \in 0..MaxGoals }

\* definitions with supplied control points: a B-spline with one variable
\* coordinate, and a NURBS with a variable weight in addition
ValConfigs ==
    { [kind |-> "BSpline",
       space_dimensions |-> <<[number_of_points |-> 1]>>,
       control_point_variables |-> Some(<< <<VInside, FHalf>> >>),
       weights |-> None, discrete_actions |-> b] : b \in BOOLEAN }
    \cup
    { [kind |-> "NURBS",
       space_dimensions |-> <<[number_of_points |-> 1]>>,
       control_point_variables |-> Some(<< <<VInside, FHalf>> >>),
       weights |-> Some(<<WAction>>), discrete_actions |-> b] :
            b \in BOOLEAN }

ValInit == InitWith(ValConfigs)

\* BaseParser._create_validation_environment(): deepcopy, then set_validation
CreateValidationEnvironment ==
    /\ env_ok
    /\ validation_environment = None
    /\ \E validation_values \in ValidationValues :
        LET copy == deepcopy_environment(heap, control_point_variables,
                                         weights, _actions)
        IN  /\ heap' = copy.heap
            /\ validation_environment' =
                    Some(set_validation(ValidationEnvironment(copy),
                                        validation_values))
            /\ last' = Call("_create_validation_environment",
                            validation_values, <<>>)
    /\ UNCHANGED <<config, spline_ok, env_ok, control_point_variables,
                   weights, _actions, action_space, n_calls>>
    /\ UNCHANGED <<vl_vars, dim_vars>>

\* validation_environment.step(action) with discrete_actions
ValidationStepDiscrete ==
    /\ validation_environment # None
    /\ config[1].discrete_actions
    /\ n_calls < MaxCalls
    /\ \E action \in 0..(2 * Len(validation_environment[1]._actions) - 1),
          done \in BOOLEAN :
        /\ heap' = apply_action_discrete(
                        heap, validation_environment[1]._actions, action)
        /\ validation_environment' =
                Some(step_validation(validation_environment[1], done))
        /\ last' = Call("validation_environment.step", <<action>>, <<>>)
    /\ n_calls' = n_calls + 1
    /\ UNCHANGED <<config, spline_ok, env_ok, control_point_variables,
                   weights, _actions, action_space>>
    /\ UNCHANGED <<vl_vars, dim_vars>>

\* validation_environment.step(action) without discrete_actions
ValidationStepContinuous ==
    /\ validation_environment # None
    /\ ~config[1].discrete_actions
    /\ n_calls < MaxCalls
    /\ \E action \in ContinuousVectors(
                        Len(validation_environment[1]._actions)),
          done \in BOOLEAN :
        /\ heap' = apply_action_continuous(
                        heap, validation_environment[1]._actions, action)
        /\ validation_environment' =
                Some(step_validation(validation_environment[1], done))
        /\ last' = Call("validation_environment.step", action, <<>>)
    /\ n_calls' = n_calls + 1
    /\ UNCHANGED <<config, spline_ok, env_ok, control_point_variables,
                   weights, _actions, action_space>>
    /\ UNCHANGED <<vl_vars, dim_vars>>

\* validation_environment.reset()
ValidationReset ==
    /\ validation_environment # None
    /\ n_calls < MaxCalls
    /\ heap' = spline_reset(heap,
                            validation_environment[1].control_point_variables,
                            validation_environment[1].weights)
    /\ validation_environment' =
            Some(reset_validation(validation_environment[1]))
    /\ last' = Call("validation_environment.reset", <<>>, <<>>)
    /\ n_calls' = n_calls + 1
    /\ UNCHANGED <<config, spline_ok, env_ok, control_point_variables,
                   weights, _actions, action_space>>
    /\ UNCHANGED <<vl_vars, dim_vars>>

ValNext ==
    \/ CreateValidationEnvironment
    \/ ValidationStepDiscrete
    \/ ValidationStepContinuous
    \/ ValidationReset
    \/ ApplyActionDiscrete
    \/ ApplyActionContinuous
    \/ Reset

SpecVal == ValInit /\ [][ValNext]_vars

----------------------------------------------------------------------------
(* Properties *)

InBounds(obj) ==
    obj.min_value <= obj.current_position
        /\ obj.current_position <= obj.max_value

\* positions of the weights
get_weights(h, w) == [i \in 1..Len(w) |-> h[w[i]].current_position]

\* C1: right after any apply_discrete_action / apply_continuos_action call
\* on a VariableLocation, min_value <= current_position <= max_value.
C1_BoundsAfterAction ==
    (vl_ok /\ vl_last.op \in {"apply_discrete_action",
                              "apply_continuos_action"})
        => InBounds(vl)

\* a continuous action beyond the normalised range was clamped to max_value
C1_Witness ==
    /\ vl_ok
    /\ vl_last.op = "apply_continuos_action"
    /\ vl_last.value = 2
    /\ vl.min_value < vl.max_value
    /\ vl.current_position = vl.max_value

\* the state right after reset() shows the construction-time positions
C2_ResetRestores ==
    (env_ok /\ last.op = "reset") =>
        /\ get_control_points(heap, control_point_variables)
            = get_control_points(definition(config[1]).heap,
                                 control_point_variables)
        /\ get_weights(heap, weights)
            = get_weights(definition(config[1]).heap, weights)

\* a snapshot once taken is not overwritten
C2_SnapshotKept ==
    \A x \in DOMAIN heap :
        heap[x]._original_position # None =>
            heap'[x]._original_position = heap[x]._original_position

\* C2: after reset() every control point coordinate and every weight has its
\* construction-time value, and a snapshot once taken is never overwritten.
C2_ResetRestoresOriginal == []C2_ResetRestores /\ [][C2_SnapshotKept]_vars

\* a reset at the end of three calls, after some variable was moved
C2_Witness ==
    /\ env_ok
    /\ last.op = "reset"
    /\ n_calls = 3
    /\ \E x \in DOMAIN heap :
        /\ heap[x]._original_position # None
        /\ heap[x].current_position = heap[x]._original_position[1]

\* a reset() directly after a reset() changes nothing
C3_ResetTwice ==
    (vl_last.op = "reset" /\ vl_last'.op = "reset") => vl' = vl

\* reset() of a never mutated VariableLocation changes nothing
C3_ResetUnmutated ==
    (vl_last'.op = "reset" /\ vl._original_position = None) =>
        /\ vl'.current_position = vl_data.current_position[1]
        /\ vl' = vl

\* C3: a reset() directly after a reset() changes nothing, and reset() on a
\* VariableLocation that was never mutated leaves it at its construction-time
\* current_position.
C3_ResetIdempotent == [][C3_ResetTwice /\ C3_ResetUnmutated]_vars

\* a reset that moved a mutated VariableLocation back
C3_Witness ==
    /\ vl_ok
    /\ vl_last.op = "reset"
    /\ vl._original_position # None
    /\ vl.current_position = vl._original_position[1]
    /\ vl.min_value < vl.max_value

\* the VariableLocation was built with min_value == max_value == current_position
C4_Fixed ==
    /\ vl_ok
    /\ VariableLocation(vl_data).min_value = vl_data.current_position[1]
    /\ VariableLocation(vl_data).max_value = vl_data.current_position[1]

\* C4: a VariableLocation with min_value == max_value == current_position
\* keeps its current_position under every action, and is_action() is False.
C4_FixedNeverMoves ==
    C4_Fixed =>
        /\ vl.current_position = vl_data.current_position[1]
        /\ ~is_action_flag(vl)

\* a discrete action with a non-zero step on such a VariableLocation
C4_Witness ==
    /\ C4_Fixed
    /\ vl_last.op = "apply_discrete_action"
    /\ vl.step # 0
    /\ vl._original_position # None

\* C5: every scalar stored in control_point_variables lies in [0, 1] in every
\* reachable state of a constructed definition.
C5_UnitInterval ==
    spline_ok =>
        \A i \in 1..Len(control_point_variables) :
            \A j \in 1..Len(as_list(control_point_variables[i])) :
                LET obj == heap[as_list(control_point_variables[i])[j]]
                IN  0 <= obj.current_position /\ obj.current_position <= One

\* C6: every constructed VariableLocation has
\* min_value <= current_position <= max_value in every reachable state.
C6_AlwaysInBounds == vl_ok => InBounds(vl)

\* C7: get_number_of_points() equals the product of number_of_points over
\* the axes and equals len(get_control_points()).
C7_GridCardinality ==
    spline_ok =>
        /\ ~iteration_raises(control_point_variables)
        /\ get_number_of_points(config[1].space_dimensions)
            = Len(get_control_points(heap, control_point_variables))

\* C8: with k = len(get_actions()), the stored action list has length k, the
\* discrete action space has 2*k values and the continuous one k dimensions.
C8_ActionSpaceSize ==
    env_ok =>
        LET k == Len(get_actions(heap, control_point_variables, weights))
        IN  /\ Len(_actions) = k
            /\ action_space # None =>
                IF config[1].discrete_actions
                THEN action_space[1] = [space |-> "Discrete", n |-> 2 * k]
                ELSE action_space[1] = [space |-> "Box", n |-> k]

\* the action space of a discrete environment with at least two variables
\* was set up after an action was applied
C8_Witness ==
    /\ env_ok
    /\ action_space # None
    /\ config[1].discrete_actions
    /\ Len(_actions) >= 2
    /\ \E x \in DOMAIN heap : heap[x]._original_position # None

\* discrete mode: action i changes exactly the variable i // 2 of the
\* action list, by a discrete action with increasing = (i % 2 == 0).
C9_Discrete ==
    (last'.op = "apply_action" /\ config[1].discrete_actions) =>
        LET i == last'.arg[1]
        IN  /\ (i \div 2) + 1 \in 1..Len(_actions)
            /\ heap' = [heap EXCEPT ![_actions[(i \div 2) + 1]] =
                            apply_discrete_action(@, i % 2 = 0)]

\* continuous mode: element j of the vector is applied to the j-th
\* variable of the action list, and nothing else changes.
C9_Continuous ==
    (last'.op = "apply_action" /\ ~config[1].discrete_actions) =>
        /\ Len(last'.arg) = Len(_actions)
        /\ \A j \in 1..Len(_actions) :
            heap'[_actions[j]] =
                apply_continuos_action(heap[_actions[j]], last'.arg[j])
        /\ \A x \in DOMAIN heap :
            (\A j \in 1..Len(_actions) : _actions[j] # x) =>
                heap'[x] = heap[x]

\* C9: in discrete mode apply_action(i) applies a discrete action to variable
\* i // 2 of the action list with increasing = (i % 2 == 0); in continuous
\* mode element j of the vector is applied to the j-th variable.
C9_ActionIndexMapping == [][C9_Discrete /\ C9_Continuous]_vars

\* an odd discrete action lowered the second variable of the action list
C9_Witness ==
    /\ env_ok
    /\ config[1].discrete_actions
    /\ last.op = "apply_action"
    /\ last.arg = <<3>>
    /\ heap[_actions[2]]._original_position # None
    /\ heap[_actions[2]].current_position
        < heap[_actions[2]]._original_position[1]

\* C10: get_actions() returns the same VariableLocations in the same order on
\* every call, whatever was applied in between.
C10_ActionsStable ==
    env_ok =>
        /\ get_actions(heap, control_point_variables, weights) = _actions
        /\ last.op = "get_actions" => last.ret = _actions

\* get_actions() was called after an action moved a variable onto both of
\* its bounds
C10_Witness ==
    /\ env_ok
    /\ last.op = "get_actions"
    /\ last.ret # <<>>
    /\ \E j \in 1..Len(_actions) :
        /\ heap[_actions[j]]._original_position # None
        /\ heap[_actions[j]].min_value = heap[_actions[j]].current_position
        /\ heap[_actions[j]].max_value = heap[_actions[j]].current_position

\* number of entries of the knot vector k that equal x
KnotCount(k, x) == Cardinality({i \in 1..Len(k) : k[i] = x})

\* number_of_points + degree + 1
NKnots(self) == self.number_of_points + self.degree + 1

\* C11: with no knot vector supplied and number_of_points >= degree + 1 the
\* generated vector has n = number_of_points + degree + 1 entries, is
\* non-decreasing, begins with exactly degree + 1 zeros, ends with exactly
\* degree + 1 ones, and holds n - 2*(degree+1) equally spaced interior knots
\* strictly between 0 and 1; get_knot_vector() returns it.
C11_OpenKnotVector ==
    (dim_ok /\ dim_data.knot_vector = None
            /\ dim.number_of_points >= dim.degree + 1) =>
        /\ dim.knot_vector # None
        /\ LET k == dim.knot_vector[1]
               n == NKnots(dim)
               middle == n - 2 * (dim.degree + 1)
           IN  /\ Len(k) = n
               /\ \A i \in 1..(n - 1) : k[i] <= k[i + 1]
               /\ \A i \in 1..(dim.degree + 1) : k[i] = 0
               /\ KnotCount(k, 0) = dim.degree + 1
               /\ \A i \in (n - dim.degree)..n : k[i] = One
               /\ KnotCount(k, One) = dim.degree + 1
               /\ \A i \in 1..middle :
                    /\ k[dim.degree + 1 + i] * (middle + 1) = i * One
                    /\ 0 < k[dim.degree + 1 + i]
                    /\ k[dim.degree + 1 + i] < One
        /\ dim_last.op = "get_knot_vector" => dim_last.ret = dim.knot_vector

\* number_of_points = 5, degree = 2: [0, 0, 0, 1/3, 2/3, 1, 1, 1]
C11_Witness ==
    /\ dim_ok
    /\ dim_data.knot_vector = None
    /\ dim.number_of_points = 5
    /\ dim.degree = 2
    /\ dim_last.op = "get_knot_vector"
    /\ dim_last.ret = Some(<<0, 0, 0, One \div 3, (2 * One) \div 3,
                             One, One, One>>)

\* C12: a supplied knot vector whose length is not
\* number_of_points + degree + 1 leaves construction successful, and the
\* resulting knot_vector is exactly the supplied vector.
C12_WrongLengthKept ==
    (/\ dim_data.name # None
     /\ dim_data.number_of_points >= 1
     /\ dim_data.degree >= 1
     /\ dim_data.knot_vector # None
     /\ Len(dim_data.knot_vector[1])
            # dim_data.number_of_points + dim_data.degree + 1) =>
        /\ dim_ok
        /\ dim.knot_vector = dim_data.knot_vector
        /\ dim_last.op = "get_knot_vector" =>
                dim_last.ret = dim_data.knot_vector

GridAccepted ==
    /\ config # None
    /\ ~definition_raises([config[1] EXCEPT !.kind = "BSpline"])

\* C14: a NURBSDefinition built without weights is constructed and holds one
\* weight per control point, each 1.0 and not an action.
C14_DefaultWeights ==
    (GridAccepted /\ config[1].kind = "NURBS" /\ config[1].weights = None) =>
        /\ spline_ok
        /\ Len(weights) = get_number_of_points(config[1].space_dimensions)
        /\ \A i \in 1..Len(weights) :
            /\ heap[weights[i]].current_position = One
            /\ ~is_action_flag(heap[weights[i]])

\* C15: a NURBSDefinition whose supplied weights list has a length other than
\* the product of number_of_points over the axes is not constructed, and
\* every constructed NURBSDefinition has exactly that many weights.
C15_WeightsLength ==
    (config # None /\ config[1].kind = "NURBS") =>
        LET n_cp == get_number_of_points(config[1].space_dimensions)
        IN  /\ (config[1].weights # None /\ Len(config[1].weights[1]) # n_cp)
                    => ~spline_ok
            /\ spline_ok => Len(weights) = n_cp

\* one weight too many on an otherwise accepted definition
C15_Witness ==
    /\ GridAccepted
    /\ config[1].kind = "NURBS"
    /\ config[1].weights # None
    /\ Len(config[1].weights[1])
        = get_number_of_points(config[1].space_dimensions) + 1
    /\ \A i \in 1..Len(config[1].weights[1]) :
        weight_ok(config[1].weights[1][i])
    /\ ~spline_ok

\* C16: get_actions() of a NURBSDefinition returns the action-eligible
\* control point variables in grid order followed by the action-eligible
\* weights in weight order; the grid part is what the base get_actions()
\* returns.
C16_NURBSActions ==
    (env_ok /\ config[1].kind = "NURBS" /\ last.op = "get_actions") =>
        LET Eligible(id) == is_action_flag(heap[id])
            grid == SelectSeq(visited(control_point_variables), Eligible)
            extra == SelectSeq(weights, Eligible)
        IN  /\ last.ret = grid \o extra
            /\ SubSeq(last.ret, 1, Len(grid))
                = get_actions(heap, control_point_variables, <<>>)

\* get_actions() of a NURBS with a variable weight behind variable control
\* points, called after another call
C16_Witness ==
    /\ env_ok
    /\ config[1].kind = "NURBS"
    /\ last.op = "get_actions"
    /\ n_calls >= 2
    /\ Len(last.ret) >= 2
    /\ last.ret[Len(last.ret)] = weights[Len(weights)]
    /\ last.ret[1] = visited(control_point_variables)[1]

\* VariableLocation(current_position=0.5, min_value=0.0, max_value=1.0,
\* n_steps=10)
C17_Example ==
    /\ vl_ok
    /\ vl_data = [current_position |-> Some(One \div 2),
                  min_value |-> Some(0), max_value |-> Some(One),
                  n_steps |-> Some(10), step |-> None]

\* the first discrete action on the example returns 0.5 + d when increasing
\* and 0.5 - d otherwise
C17_FirstAction(d) ==
    (C17_Example /\ vl_last.op = "__init__"
                 /\ vl_last'.op = "apply_discrete_action") =>
        vl_last'.ret = IF vl_last'.increasing THEN One \div 2 + d
                       ELSE One \div 2 - d

\* ten increasing discrete actions in a row leave the example at 1.0
C17_TenIncreases ==
    (C17_Example /\ vl_last.op = "apply_discrete_action"
                 /\ vl_last.increasing /\ vl_last.run >= 10) =>
        vl.current_position = One

\* C17: the example has step 0.05; apply_discrete_action(True) on the
\* original returns 0.55 and apply_discrete_action(False) 0.45; ten
\* increasing actions in a row end clamped at 1.0.
C17_StepExample ==
    /\ [](C17_Example => vl.step = One \div 20)
    /\ [][C17_FirstAction(One \div 20)]_vars
    /\ []C17_TenIncreases

\* C17 as the code has it: the example has step (1.0 - 0.0) / 10 = 0.1;
\* apply_discrete_action(True) on the original returns 0.6 and
\* apply_discrete_action(False) 0.4; ten increasing actions in a row end
\* clamped at 1.0.
C17_StepExampleTenth ==
    /\ [](C17_Example => vl.step = One \div 10)
    /\ [][C17_FirstAction(One \div 10)]_vars
    /\ []C17_TenIncreases

\* the tenth increasing action in a row on the example
C17_Witness ==
    /\ C17_Example
    /\ vl_last.op = "apply_discrete_action"
    /\ vl_last.increasing
    /\ vl_last.run = 10
    /\ vl_last.ret = One

\* C18: apply_continuos_action(value) sets current_position to
\* clip(min_value + ((value+1)/2)*(max_value-min_value), min_value,
\* max_value) and returns it: -1 gives min_value, 1 gives max_value, 0 the
\* midpoint, values above 1 max_value and values below -1 min_value.
C18_ContinuousMapping ==
    (vl_ok /\ vl_last.op = "apply_continuos_action") =>
        LET value == vl_last.value
            lo == vl.min_value
            hi == vl.max_value
        IN  /\ vl_last.ret = vl.current_position
            /\ 2 * vl.current_position
                = clip(2 * lo + (value + 1) * (hi - lo), 2 * lo, 2 * hi)
            /\ value = -1 => vl.current_position = lo
            /\ value = 1 => vl.current_position = hi
            /\ value = 0 => 2 * vl.current_position = lo + hi
            /\ value > 1 => vl.current_position = hi
            /\ value < -1 => vl.current_position = lo

\* the value 0 moved a VariableLocation from a bound to the midpoint
C18_Witness ==
    /\ vl_ok
    /\ vl_last.op = "apply_continuos_action"
    /\ vl_last.value = 0
    /\ vl.min_value < vl.max_value
    /\ vl._original_position = Some(vl.max_value)
    /\ 2 * vl.current_position = vl.min_value + vl.max_value

\* number of control points spanned by the axes declared before axis j
PointsBefore(dims, j) ==
    Product([i \in 1..(j - 1) |-> dims[i].number_of_points])

\* number of control points spanned by the axes declared after axis j
PointsAfter(dims, j) ==
    Product([i \in 1..(Len(dims) - j) |-> dims[j + i].number_of_points])

\* the generated grid of two or more axes at its construction-time
\* positions: coordinate j of the control point with flat index e is the
\* value of axis j at index (e \div stride) % number_of_points, where stride
\* spans the axes declared before axis j (first_fastest) or after it
GridOrdered(first_fastest) ==
    (/\ spline_ok
     /\ config[1].control_point_variables = None
     /\ Len(config[1].space_dimensions) >= 2
     /\ last.op \in {"__init__", "reset"}) =>
        LET dims == config[1].space_dimensions
            cps == get_control_points(heap, control_point_variables)
        IN  \A e \in 1..Len(cps) :
                /\ Len(cps[e]) = Len(dims)
                /\ \A j \in 1..Len(dims) :
                    cps[e][j] =
                        linspace(dims[j].number_of_points)[
                            (((e - 1) \div (IF first_fastest
                                             THEN PointsBefore(dims, j)
                                             ELSE PointsAfter(dims, j)))
                                % dims[j].number_of_points) + 1]

\* C19: in a generated grid of two or more axes the flattened list of
\* control points is ordered so that the last declared axis varies fastest.
C19_LastAxisFastest == GridOrdered(FALSE)

\* C19 as the code has it: in a generated grid of two or more axes the
\* flattened list of control points is ordered so that the first declared
\* axis varies fastest.
C19_FirstAxisFastest == GridOrdered(TRUE)

\* a reset grid of 2 x 3 control points whose second point is (1, 0)
C19_Witness ==
    /\ env_ok
    /\ last.op = "reset"
    /\ n_calls = 2
    /\ [d \in 1..Len(config[1].space_dimensions) |->
            config[1].space_dimensions[d].number_of_points] = <<2, 3>>
    /\ get_control_points(heap, control_point_variables)[2] = <<One, 0>>
    /\ \E x \in DOMAIN heap : heap[x]._original_position # None

\* the construction-time position of a VariableLocation
original_position(obj) ==
    IF obj._original_position # None THEN obj._original_position[1]
    ELSE obj.current_position

\* C20: every VariableLocation of a generated grid has bounds inside [0, 1]:
\* the value 0 has [0, half], the value 1 has [1 - half, 1] and an interior
\* value v has [v - half, v + half], half = 1 / (2 * (number_of_points - 1))
\* of its axis; no coordinate leaves [0, 1] under actions and resets.
C20_GridBounds ==
    (spline_ok /\ config[1].control_point_variables = None) =>
        \A e \in 1..Len(control_point_variables) :
            \A j \in 1..Len(as_list(control_point_variables[e])) :
                LET obj == heap[as_list(control_point_variables[e])[j]]
                    n_p == config[1].space_dimensions[j].number_of_points
                    v == original_position(obj)
                IN  /\ 2 * (n_p - 1) * obj.min_value =
                        IF v = 0 THEN 0 ELSE 2 * (n_p - 1) * v - One
                    /\ 2 * (n_p - 1) * obj.max_value =
                        IF v = One THEN 2 * (n_p - 1) * One
                        ELSE 2 * (n_p - 1) * v + One
                    /\ 0 <= obj.min_value /\ obj.max_value <= One
                    /\ 0 <= obj.current_position
                    /\ obj.current_position <= One

\* an action moved the interior coordinate 0.5 of an axis of three points
\* onto its upper bound 0.75
C20_Witness ==
    /\ env_ok
    /\ config[1].control_point_variables = None
    /\ last.op = "apply_action"
    /\ \E x \in DOMAIN heap :
        /\ heap[x]._original_position = Some(One \div 2)
        /\ heap[x].min_value = One \div 4
        /\ heap[x].max_value = 3 * (One \div 4)
        /\ heap[x].current_position = heap[x].max_value

\* C21: for any number of axes d >= 1 the generated control_point_variables
\* is a sequence of prod(number_of_points) control points, each a sequence of
\* exactly d VariableLocations of which the j-th is a coordinate on the j-th
\* declared axis, and get_control_points() returns floats in that shape.
C21_GridShape ==
    (spline_ok /\ config[1].control_point_variables = None) =>
        LET dims == config[1].space_dimensions
        IN  /\ Len(control_point_variables) = get_number_of_points(dims)
            /\ \A e \in 1..Len(control_point_variables) :
                /\ control_point_variables[e].type = "list"
                /\ Len(control_point_variables[e].items) = Len(dims)
                /\ \A j \in 1..Len(dims) :
                    \E i \in 1..dims[j].number_of_points :
                        original_position(
                            heap[control_point_variables[e].items[j]])
                        = linspace(dims[j].number_of_points)[i]
            /\ env_ok
            /\ last.op = "get_control_points" =>
                /\ Len(last.ret) = get_number_of_points(dims)
                /\ \A e \in 1..Len(last.ret) : Len(last.ret[e]) = Len(dims)

\* the object is the zero-width wrapper of the float element and is not in
\* any action list
FixedAt(id, element) ==
    /\ heap[id].current_position = element.data.current_position[1]
    /\ heap[id].min_value = element.data.current_position[1]
    /\ heap[id].max_value = element.data.current_position[1]
    /\ \A k \in 1..Len(_actions) : _actions[k] # id
    /\ last.op = "get_actions" =>
            \A k \in 1..Len(last.ret) : last.ret[k] # id

\* C22: a control point coordinate or NURBS weight supplied as a raw float v
\* is held as a VariableLocation with current_position = min_value =
\* max_value = v, is never returned by get_actions(), and keeps its value
\* under every sequence of actions.
C22_FloatsAreFixed ==
    spline_ok =>
        /\ config[1].control_point_variables # None =>
            \A i \in 1..Len(config[1].control_point_variables[1]) :
                \A j \in 1..Len(config[1].control_point_variables[1][i]) :
                    LET element == config[1].control_point_variables[1][i][j]
                    IN  element.type = "float" =>
                            FixedAt(control_point_variables[i].items[j],
                                    element)
        /\ config[1].kind = "NURBS" =>
            \A i \in 1..Len(config[1].weights[1]) :
                config[1].weights[1][i].type = "float" =>
                    FixedAt(weights[i], config[1].weights[1][i])

\* a NURBS with a float coordinate and float weights after two calls of
\* which the last applied an action that moved a variable
C22_Witness ==
    /\ env_ok
    /\ config[1].kind = "NURBS"
    /\ config[1].control_point_variables # None
    /\ config[1].control_point_variables[1][1] = <<VInside, FHalf>>
    /\ config[1].weights[1][1] = F1
    /\ last.op = "apply_action"
    /\ n_calls >= 2
    /\ heap[control_point_variables[1].items[1]].current_position
        # One \div 2
    /\ heap[control_point_variables[1].items[2]].current_position
        = One \div 2

\* the bound a VariableLocation is built with: the supplied one, or
\* current_position when it is missing
given_bound(bound) ==
    IF bound = None THEN vl_data.current_position[1] ELSE bound[1]

\* C23: construction of a VariableLocation whose max_value, supplied or
\* defaulted to current_position, is smaller than its min_value fails; every
\* constructed VariableLocation has min_value <= max_value, and no action or
\* reset changes min_value or max_value.
C23_BoundsOrdered ==
    /\ (vl_data # None /\ vl_data.current_position # None
            /\ given_bound(vl_data.max_value) < given_bound(vl_data.min_value))
        => ~vl_ok
    /\ vl_ok =>
        /\ vl.min_value <= vl.max_value
        /\ vl.min_value = given_bound(vl_data.min_value)
        /\ vl.max_value = given_bound(vl_data.max_value)

\* max_value is missing and current_position lies below min_value
C23_Witness ==
    /\ vl_data # None
    /\ vl_data.current_position = Some(One \div 2)
    /\ vl_data.min_value = Some(One)
    /\ vl_data.max_value = None
    /\ vl_data.n_steps = None
    /\ vl_data.step = None
    /\ ~vl_ok
    /\ vl_last.op = "__init__"

\* C24: in every reachable state of a constructed VariableLocation the value
\* is_action() returns equals (max_value > current_position) or
\* (min_value < current_position) evaluated on that state.
C24_IsActionPure ==
    (vl_ok /\ vl_last.op = "is_action") =>
        vl_last.flag = ((vl.max_value > vl.current_position)
                            \/ (vl.min_value < vl.current_position))

\* C25: without a supplied step the step of a constructed VariableLocation
\* is (max_value - min_value) / n_steps, n_steps defaulting to 10; a supplied
\* step is used unchanged and n_steps is ignored.
C25_StepDerivation ==
    vl_ok =>
        IF vl_data.step = None
        THEN vl.step * (IF vl_data.n_steps = None THEN 10
                        ELSE vl_data.n_steps[1])
                = vl.max_value - vl.min_value
        ELSE vl.step = vl_data.step[1]

\* step=0.25 was supplied together with n_steps=2 on [0, 1], and an
\* increasing action moved the position by 0.25
C25_Witness ==
    /\ vl_ok
    /\ vl_data.step = Some(One \div 4)
    /\ vl_data.n_steps = Some(2)
    /\ vl.min_value = 0
    /\ vl.max_value = One
    /\ vl_last.op = "apply_discrete_action"
    /\ vl_last.increasing
    /\ vl._original_position = Some(One \div 2)
    /\ vl.current_position = One \div 2 + One \div 4

----------------------------------------------------------------------------
(* The validation environment *)

\* the objects the validation environment refers to
validation_referenced ==
    referenced(validation_environment[1].control_point_variables,
               validation_environment[1].weights)

\* the two environments refer to different objects, and the action list of
\* each one refers to objects of its own grid and weights
C26_OwnObjects ==
    validation_environment # None =>
        /\ validation_referenced
                \cap referenced(control_point_variables, weights) = {}
        /\ \A k \in 1..Len(validation_environment[1]._actions) :
                validation_environment[1]._actions[k]
                    \in validation_referenced
        /\ \A k \in 1..Len(_actions) :
                _actions[k] \in referenced(control_point_variables, weights)

\* a call on one environment leaves the objects of the other one unchanged
C26_OtherUnchanged ==
    (validation_environment # None /\ validation_environment' # None) =>
        /\ last'.op \in {"apply_action", "reset"} =>
                \A x \in validation_referenced : heap'[x] = heap[x]
        /\ last'.op \in {"validation_environment.step",
                         "validation_environment.reset"} =>
                \A x \in referenced(control_point_variables, weights) :
                    heap'[x] = heap[x]

\* a discrete action of the validation environment is applied to the
\* variable of its own action list, and get_control_points() of the
\* validation environment reads the new position of a grid variable
C26_VisibleInCopy ==
    (/\ validation_environment # None
     /\ validation_environment' # None
     /\ last'.op = "validation_environment.step"
     /\ config[1].discrete_actions) =>
        LET self == validation_environment[1]
            i == last'.arg[1]
            id == self._actions[(i \div 2) + 1]
            new == apply_discrete_action(heap[id], i % 2 = 0)
        IN  /\ heap'[id] = new
            /\ \A p \in 1..Len(self.control_point_variables) :
                \A j \in 1..Len(self.control_point_variables[p].items) :
                    self.control_point_variables[p].items[j] = id =>
                        get_control_points(
                            heap', self.control_point_variables)[p][j]
                                = new.current_position

\* C26: a validation environment made by deepcopy shares no variable with the
\* training environment: apply_action / reset on one leaves every coordinate,
\* weight and snapshot of the other unchanged, and the action list of the
\* copy refers to the copy's own grid variables, so an action applied through
\* it is visible in the copy's get_control_points().
C26_IndependentCopies ==
    /\ []C26_OwnObjects
    /\ [][C26_OtherUnchanged /\ C26_VisibleInCopy]_vars

\* a validation step moved a control point of the copy away from the
\* position the training environment still has
C26_Witness ==
    /\ validation_environment # None
    /\ last.op = "validation_environment.step"
    /\ Len(validation_environment[1]._actions) >= 1
    /\ get_control_points(
            heap, validation_environment[1].control_point_variables)
        # get_control_points(heap, control_point_variables)

\* C27: generating the default control point grid succeeds for every axis
\* specification with number_of_points >= 1 on every axis, an axis with
\* exactly one point included.
C27_DefaultGridSucceeds ==
    (/\ config # None
     /\ config[1].control_point_variables = None
     /\ \A d \in 1..Len(config[1].space_dimensions) :
            config[1].space_dimensions[d].number_of_points >= 1) =>
        spline_ok

\* an increasing discrete action does not lower current_position, a
\* decreasing one does not raise it, and at the bound in the direction of the
\* action current_position stays where it is
C28_Monotone ==
    (vl_ok /\ vl_last'.op = "apply_discrete_action") =>
        IF vl_last'.increasing
        THEN /\ vl'.current_position >= vl.current_position
             /\ vl.current_position = vl.max_value =>
                    vl'.current_position = vl.current_position
        ELSE /\ vl'.current_position <= vl.current_position
             /\ vl.current_position = vl.min_value =>
                    vl'.current_position = vl.current_position

\* C28: for every constructed VariableLocation, an explicitly supplied step
\* included, apply_discrete_action(True) never lowers current_position and
\* apply_discrete_action(False) never raises it; at the upper bound an
\* increasing action, and at the lower bound a decreasing action, leaves
\* current_position unchanged.
C28_DiscreteMonotone == [][C28_Monotone]_vars

\* positions (e, j) of the grid
grid_positions(cpv) ==
    UNION { { <<e, j>> : j \in 1..Len(cpv[e].items) } : e \in 1..Len(cpv) }

\* no two grid cells and no two weights are one object, and no weight is an
\* object of the grid
C29_NoAlias ==
    env_ok =>
        /\ \A p, q \in grid_positions(control_point_variables) :
            control_point_variables[p[1]].items[p[2]]
                = control_point_variables[q[1]].items[q[2]] => p = q
        /\ \A k, l \in 1..Len(weights) : weights[k] = weights[l] => k = l
        /\ \A k \in 1..Len(weights) :
            \A p \in grid_positions(control_point_variables) :
                weights[k] # control_point_variables[p[1]].items[p[2]]

\* a discrete action i changes current_position and the snapshot of variable
\* i // 2 of the action list only: its bounds and steps, every other object,
\* the grid, the weights and the axes stay as they are, and at most one
\* coordinate of get_control_points() differs afterwards
C29_Frame ==
    (env_ok /\ last'.op = "apply_action" /\ config[1].discrete_actions) =>
        LET i == last'.arg[1]
            id == _actions[(i \div 2) + 1]
            before == get_control_points(heap, control_point_variables)
            after == get_control_points(heap', control_point_variables)
        IN  /\ DOMAIN heap' = DOMAIN heap
            /\ \A x \in DOMAIN heap : x # id => heap'[x] = heap[x]
            /\ heap'[id].min_value = heap[id].min_value
            /\ heap'[id].max_value = heap[id].max_value
            /\ heap'[id].step = heap[id].step
            /\ heap'[id].n_steps = heap[id].n_steps
            /\ control_point_variables' = control_point_variables
            /\ weights' = weights
            /\ _actions' = _actions
            /\ config' = config
            /\ dim' = dim
            /\ Cardinality({ p \in grid_positions(control_point_variables) :
                    after[p[1]][p[2]] # before[p[1]][p[2]] }) <= 1

\* C29: a discrete action with index i changes at most current_position and
\* the snapshot of the single variable i // 2 of the action list; every other
\* coordinate and weight, the coordinates of other control points with the
\* same axis value in a generated grid included (no two cells are one
\* VariableLocation), all bounds, steps and knot vectors are unchanged.
C29_DiscreteFrame == []C29_NoAlias /\ [][C29_Frame]_vars

\* in a generated grid a discrete action moved a coordinate of one control
\* point while another control point with the same axis value kept it
C29_Witness ==
    /\ env_ok
    /\ config[1].control_point_variables = None
    /\ config[1].discrete_actions
    /\ last.op = "apply_action"
    /\ \E p, q \in grid_positions(control_point_variables) :
        /\ p[1] # q[1]
        /\ p[2] = q[2]
        /\ original_position(
                heap[control_point_variables[p[1]].items[p[2]]])
            = original_position(
                heap[control_point_variables[q[1]].items[q[2]]])
        /\ heap[control_point_variables[p[1]].items[p[2]]].current_position
            # heap[control_point_variables[q[1]].items[q[2]]].current_position

\* with n goal values the validation index is one of 0..n
C30_IndexInRange ==
    (validation_environment # None
        /\ validation_is_set(validation_environment[1])) =>
        validation_environment[1]._validation_idx
            \in 0..Len(validation_environment[1]._validation[1])

\* reset() of the validation environment: the timestep counter is 0
\* afterwards; with n > 0 goal values the goal at index mod n is selected,
\* then the index is incremented, and it wraps to 0 with one more validation
\* iteration exactly when the incremented index exceeds n
C30_Reset ==
    (/\ validation_environment # None
     /\ validation_environment' # None
     /\ last'.op = "validation_environment.reset") =>
        LET self == validation_environment[1]
            after == validation_environment'[1]
            n == Len(self._validation[1])
            idx == self._validation_idx
        IN  /\ after._timesteps_in_validation = 0
            /\ after._validation = self._validation
            /\ n > 0 =>
                /\ after.new_goal_value =
                        Some(self._validation[1][(idx % n) + 1])
                /\ after._validation_idx =
                        IF idx + 1 > n THEN 0 ELSE idx + 1
                /\ after._validation_itteration =
                        IF idx + 1 > n
                        THEN self._validation_itteration + 1
                        ELSE self._validation_itteration

\* C30: in a validation environment with n > 0 goal values the validation
\* index stays within 0..n; each reset() selects the goal validation[index
\* mod n] before it increments the index, the index wraps to 0, with the
\* validation iteration counter incremented by one, exactly when the
\* increment would make it exceed n, and every reset() sets the validation
\* timestep counter back to 0.
C30_ValidationIndex == []C30_IndexInRange /\ [][C30_Reset]_vars

\* a reset() wrapped the index of a non-empty goal list and started the
\* next validation iteration
C30_Witness ==
    /\ validation_environment # None
    /\ validation_is_set(validation_environment[1])
    /\ last.op = "validation_environment.reset"
    /\ validation_environment[1]._validation_idx = 0
    /\ validation_environment[1]._validation_itteration = 1
    /\ validation_environment[1]._timesteps_in_validation = 0

====
